---- MODULE Spec2Model ----
(***************************************************************************)
(* Model of the task store (backend/app/crud/task.py), the task table      *)
(* (backend/app/models/task.py), the request schemas                       *)
(* (backend/app/schemas/task.py) and the request handlers                  *)
(* (backend/app/routers/tasks.py) of the TODO application.                 *)
(*                                                                         *)
(* A column value is either NULL, written None (the empty tuple), or a     *)
(* value v, written Some(v) (the one-element tuple).  Dates are day        *)
(* numbers, timestamps are readings of one non-decreasing clock.           *)
(***************************************************************************)
EXTENDS Integers, Sequences, FiniteSets, TLC

\* ------------------------------------------------------------------ bounds
MaxId    == 2      \* largest primary key handed out
MaxClock == 1      \* largest reading of the clock
MaxSessions == 2   \* requests handled at the same time

\* ------------------------------------------------------- program constants
TITLE_MIN_LENGTH == 1
TITLE_MAX_LENGTH == 255
HTTP_200_OK == 200
HTTP_201_CREATED == 201
HTTP_204_NO_CONTENT == 204
HTTP_404_NOT_FOUND == 404
HTTP_422_UNPROCESSABLE == 422
HTTP_500_SERVER_ERROR == 500

None == << >>
Some(v) == << v >>

\* A string of n characters.
RECURSIVE Repeat(_)
Repeat(n) ==
    IF n = 0 THEN ""
    ELSE LET half == Repeat(n \div 2)
         IN IF n % 2 = 0 THEN half \o half ELSE half \o half \o "x"

\* ------------------------------------------------------------------ inputs
LongestTitle == Repeat(TITLE_MAX_LENGTH)
TooLongTitle == Repeat(TITLE_MAX_LENGTH + 1)
TitleValues == {None, Some(""), Some("a"), Some(LongestTitle), Some(TooLongTitle)}
DescriptionValues == {None, Some("d")}
DueDateValues == {None, Some(1), Some(2)}
CompletedValues == {None, Some(TRUE), Some(FALSE)}

CreateFields == {"title", "description", "due_date"}
UpdateFields == {"title", "description", "due_date", "completed"}

\* A request body after parsing: the value of every field of the schema (the
\* default None where the body does not carry it) and the set of the fields
\* the body carries (pydantic's model_fields_set).
Body(title, description, due_date, completed, fields_set) ==
    [title |-> title, description |-> description, due_date |-> due_date,
     completed |-> completed, fields_set |-> fields_set]

Bodies(fieldsOf) ==
    { b \in { Body(t, d, u, c, fs) :
                t \in TitleValues, d \in DescriptionValues, u \in DueDateValues,
                c \in CompletedValues, fs \in SUBSET fieldsOf } :
        /\ ("title" \notin b.fields_set) => b.title = None
        /\ ("description" \notin b.fields_set) => b.description = None
        /\ ("due_date" \notin b.fields_set) => b.due_date = None
        /\ ("completed" \notin b.fields_set) => b.completed = None }

\* The bodies of the POST requests: every body with the title "a", and every
\* other title (also none) alone or with a description.
CreateBodies == { b \in Bodies(CreateFields) :
                    \/ b.title = Some("a")
                    \/ b.fields_set \subseteq {"title"}
                    \/ (b.fields_set = {"description"} /\ b.description # None) }

\* The bodies of the PUT requests: the empty body, every body of one field,
\* every body of two fields other than title, and a title with a description.
UpdateBodies == { b \in Bodies(UpdateFields) :
                    \/ Cardinality(b.fields_set) <= 1
                    \/ (Cardinality(b.fields_set) = 2 /\ "title" \notin b.fields_set)
                    \/ (b.fields_set = {"title", "description"}
                          /\ b.title = Some("a") /\ b.description = Some("d")) }

TaskIds == 1 .. MaxId

\* The requests handled at the same time: each runs in a thread of the
\* server's pool, with a session of its own.
Sessions == 1 .. MaxSessions

\* The bodies of the requests that overlap with other requests.
CreateBodiesConc == { Body(Some("a"), None, None, None, {"title"}) }
UpdateBodiesConc == { Body(None, None, None, None, {}),
                      Body(None, None, None, Some(TRUE), {"completed"}),
                      Body(Some(""), None, None, None, {"title"}) }

\* The query parameters of the GET /tasks requests: every valid combination
\* of a filter, an order other than the default, an offset and a limit, and
\* each invalid value with the other parameters left out.
LIMIT_DEFAULT == 100
LIMIT_MAX == 1000
Query(status, order, skip, limit) ==
    [status |-> status, order |-> order, skip |-> skip, limit |-> limit]
ListQueries ==
    { Query(st, o, sk, l) :
        st \in {None, Some("completed"), Some("pending")},
        o \in {None, Some("oldest"), Some("due_date")},
        sk \in {0, 1}, l \in {1, LIMIT_DEFAULT} }
    \cup { Query(None, Some("newest"), 0, LIMIT_DEFAULT),
           Query(Some("done"), None, 0, LIMIT_DEFAULT),
           Query(None, Some("title"), 0, LIMIT_DEFAULT),
           Query(None, None, 0 - 1, LIMIT_DEFAULT),
           Query(None, None, 0, 0),
           Query(None, None, 0, LIMIT_MAX + 1) }

\* The queries of the GET /tasks requests that overlap with other requests.
ListQueriesConc == { Query(None, None, 0, LIMIT_DEFAULT),
                     Query(Some("pending"), None, 1, 1) }

VARIABLES
    backend,   \* the storage engine DATABASE_URL selects
    sequence,  \* last value of the id sequence (postgresql)
    tasks,     \* the rows of table "tasks", by primary key
    created,   \* the keys of the rows alive, in the order of their create calls
    clock,     \* the current reading of datetime.utcnow
    resp,      \* the response of the last request handled
    sess,      \* the database session of every request being handled
    assigned   \* the ids the create calls have returned so far

vars == << backend, sequence, tasks, created, clock, resp, sess, assigned >>

\* ---------------------------------------------------------------- schemas
TitleLengthOk(title) ==
    /\ Len(title[1]) >= TITLE_MIN_LENGTH
    /\ Len(title[1]) <= TITLE_MAX_LENGTH

\* TaskCreate: title is a required str of 1..255 characters.
TaskCreate_valid(body) ==
    /\ "title" \in body.fields_set
    /\ body.title # None
    /\ TitleLengthOk(body.title)

\* TaskUpdate: title is an Optional[str]; the length bounds apply to a str.
TaskUpdate_valid(body) ==
    body.title # None => TitleLengthOk(body.title)

\* model_dump(exclude_unset=True): the fields the request carries.
model_dump_exclude_unset(body) == body.fields_set

\* ------------------------------------------------------------------ table
NotNullColumns == {"title", "completed"}

Max(S) == CHOOSE m \in S : \A x \in S : x <= m

\* The primary key the engine gives the next inserted row: the rowid of
\* sqlite (one more than the largest key in the table), the next value of
\* the sequence of postgresql.
NextId(engine, store, seq) ==
    IF engine = "sqlite"
    THEN (IF DOMAIN store = {} THEN 1 ELSE Max(DOMAIN store) + 1)
    ELSE seq + 1

Insert(store, row) ==
    [i \in (DOMAIN store) \cup {row.id} |-> IF i = row.id THEN row ELSE store[i]]

Remove(store, id) ==
    [i \in (DOMAIN store) \ {id} |-> store[i]]

\* ------------------------------------------------------------------- crud
\* An INSERT that evaluates the default of updated_at before that of
\* created_at: the two readings of the clock land in the other column.
create_task_stamps_swapped(store, id, task, created_at, updated_at) ==
    Insert(store, [id |-> id,
                   title |-> task.title,
                   description |-> task.description,
                   due_date |-> task.due_date,
                   completed |-> Some(FALSE),
                   created_at |-> updated_at,
                   updated_at |-> created_at])

\* create_task: INSERT with completed = False; the two column defaults
\* created_at and updated_at are two calls of datetime.utcnow.
create_task(store, id, task, created_at, updated_at) ==
    Insert(store, [id |-> id,
                   title |-> task.title,
                   description |-> task.description,
                   due_date |-> task.due_date,
                   completed |-> Some(FALSE),
                   created_at |-> created_at,
                   updated_at |-> updated_at])

\* A lookup that lost its filter on the primary key: the first row of the table.
get_task_unfiltered(store, task_id) ==
    IF DOMAIN store = {} THEN None
    ELSE Some(store[CHOOSE i \in DOMAIN store : \A j \in DOMAIN store : i <= j])

\* get_task: the row with that primary key, or None.
get_task(store, task_id) ==
    IF task_id \in DOMAIN store THEN Some(store[task_id]) ELSE None

\* update_task, lines 77-79: setattr of every field the request carries.
apply_update(db_task, task_update) ==
    [f \in DOMAIN db_task |->
        IF f \in model_dump_exclude_unset(task_update)
        THEN task_update[f] ELSE db_task[f]]

\* A toggle that marks the task complete instead of negating the flag.
apply_toggle_marks_complete(db_task) ==
    [db_task EXCEPT !.completed = Some(TRUE)]

\* toggle_task_completion, line 92.
apply_toggle(db_task) ==
    [db_task EXCEPT !.completed = Some(~ db_task.completed[1])]

\* The attributes of the object whose value differs from the loaded one: the
\* columns of the UPDATE statement of the flush.
ChangedColumns(loaded, pending) ==
    { f \in UpdateFields : pending[f] # loaded[f] }

\* A flush whose UPDATE leaves updated_at alone (a column without onupdate).
commit_update_without_onupdate(store, loaded, pending, now) ==
    LET changed == { f \in UpdateFields : pending[f] # loaded[f] } IN
    IF changed = {}
    THEN [tasks |-> store, error |-> "none"]
    ELSE IF loaded.id \notin DOMAIN store
    THEN [tasks |-> store, error |-> "StaleDataError"]
    ELSE IF \E f \in changed \cap NotNullColumns : pending[f] = None
    THEN [tasks |-> store, error |-> "IntegrityError"]
    ELSE [tasks |-> [store EXCEPT ![loaded.id] =
                        [f \in DOMAIN @ |->
                            IF f \in changed THEN pending[f] ELSE @[f]]],
          error |-> "none"]

\* A flush into a table whose columns all accept NULL.
commit_update_nullable(store, loaded, pending, now) ==
    LET changed == { f \in UpdateFields : pending[f] # loaded[f] } IN
    IF changed = {}
    THEN [tasks |-> store, error |-> "none"]
    ELSE IF loaded.id \notin DOMAIN store
    THEN [tasks |-> store, error |-> "StaleDataError"]
    ELSE [tasks |-> [store EXCEPT ![loaded.id] =
                        [f \in DOMAIN @ |->
                            IF f \in changed THEN pending[f]
                            ELSE IF f = "updated_at" THEN now
                            ELSE @[f]]],
          error |-> "none"]

\* A flush that writes the object back with INSERT OR REPLACE (a merge): the
\* row is written whether or not the table still holds it.
commit_update_upsert(store, loaded, pending, now) ==
    LET changed == { f \in UpdateFields : pending[f] # loaded[f] } IN
    IF changed = {}
    THEN [tasks |-> store, error |-> "none"]
    ELSE IF \E f \in changed \cap NotNullColumns : pending[f] = None
    THEN [tasks |-> store, error |-> "IntegrityError"]
    ELSE [tasks |-> Insert(store, [pending EXCEPT !.updated_at = now]),
          error |-> "none"]

\* A flush into a table whose created_at carries the onupdate of updated_at.
commit_update_stamps_created_at(store, loaded, pending, now) ==
    LET changed == { f \in UpdateFields : pending[f] # loaded[f] } IN
    IF changed = {}
    THEN [tasks |-> store, error |-> "none"]
    ELSE IF loaded.id \notin DOMAIN store
    THEN [tasks |-> store, error |-> "StaleDataError"]
    ELSE IF \E f \in changed \cap NotNullColumns : pending[f] = None
    THEN [tasks |-> store, error |-> "IntegrityError"]
    ELSE [tasks |-> [store EXCEPT ![loaded.id] =
                        [f \in DOMAIN @ |->
                            IF f \in changed THEN pending[f]
                            ELSE IF f \in {"created_at", "updated_at"} THEN now
                            ELSE @[f]]],
          error |-> "none"]

\* db.commit() of a session that holds one loaded object: the flush emits
\*   UPDATE tasks SET <changed columns>, updated_at = utcnow() WHERE id = ?
\* when a column changed, and nothing otherwise.  The statement fails when
\* it matches no row (StaleDataError) or sets a NOT NULL column to NULL
\* (IntegrityError); the transaction is then rolled back.
commit_update(store, loaded, pending, now) ==
    LET changed == ChangedColumns(loaded, pending) IN
    IF changed = {}
    THEN [tasks |-> store, error |-> "none"]
    ELSE IF loaded.id \notin DOMAIN store
    THEN [tasks |-> store, error |-> "StaleDataError"]
    ELSE IF \E f \in changed \cap NotNullColumns : pending[f] = None
    THEN [tasks |-> store, error |-> "IntegrityError"]
    ELSE [tasks |-> [store EXCEPT ![loaded.id] =
                        [f \in DOMAIN @ |->
                            IF f \in changed THEN pending[f]
                            ELSE IF f = "updated_at" THEN now
                            ELSE @[f]]],
          error |-> "none"]

\* db.delete(db_task); db.commit(): DELETE FROM tasks WHERE id = ?.  A
\* DELETE that matches no row is a warning of the ORM, not an exception.
commit_delete(store, loaded) ==
    [tasks |-> Remove(store, loaded.id), error |-> "none"]

\* update_task, run without interruption: the value returned (None, or the
\* refreshed row), the table afterwards and the exception raised, if any.
update_task(store, task_id, task_update, now) ==
    LET db_task == get_task(store, task_id) IN
    IF db_task = None
    THEN [tasks |-> store, error |-> "none", ret |-> None]
    ELSE LET c == commit_update(store, db_task[1],
                                apply_update(db_task[1], task_update), now) IN
         [tasks |-> c.tasks, error |-> c.error,
          ret |-> IF c.error = "none" THEN get_task(c.tasks, task_id) ELSE None]

toggle_task_completion(store, task_id, now) ==
    LET db_task == get_task(store, task_id) IN
    IF db_task = None
    THEN [tasks |-> store, error |-> "none", ret |-> None]
    ELSE LET c == commit_update(store, db_task[1], apply_toggle(db_task[1]), now) IN
         [tasks |-> c.tasks, error |-> c.error,
          ret |-> IF c.error = "none" THEN get_task(c.tasks, task_id) ELSE None]

delete_task(store, task_id) ==
    LET db_task == get_task(store, task_id) IN
    IF db_task = None
    THEN [tasks |-> store, error |-> "none", ret |-> FALSE]
    ELSE LET c == commit_delete(store, db_task[1]) IN
         [tasks |-> c.tasks, error |-> c.error, ret |-> c.error = "none"]

\* get_tasks, lines 53-56, and count_tasks, lines 118-121: the status filter.
FilterByStatus(store, status) ==
    IF status = Some("completed")
    THEN { i \in DOMAIN store : store[i].completed = Some(TRUE) }
    ELSE IF status = Some("pending")
    THEN { i \in DOMAIN store : store[i].completed = Some(FALSE) }
    ELSE DOMAIN store

\* An ORDER BY due_date ASC without nulls_last: sqlite sorts NULL first.
OrderBy_nulls_first(a, b, order) ==
    IF order = "oldest"
    THEN a.created_at <= b.created_at
    ELSE IF order = "due_date"
    THEN \/ a.due_date = None /\ b.due_date # None
         \/ /\ a.due_date # None /\ b.due_date # None
            /\ a.due_date[1] < b.due_date[1]
         \/ /\ a.due_date = b.due_date
            /\ a.created_at >= b.created_at
    ELSE a.created_at >= b.created_at

\* get_tasks, lines 59-65: a sorts before b, or they tie, under the ORDER BY.
OrderBy(a, b, order) ==
    IF order = "oldest"
    THEN a.created_at <= b.created_at
    ELSE IF order = "due_date"
    THEN \/ a.due_date # None /\ b.due_date = None
         \/ /\ a.due_date # None /\ b.due_date # None
            /\ a.due_date[1] < b.due_date[1]
         \/ /\ a.due_date = b.due_date
            /\ a.created_at >= b.created_at
    ELSE a.created_at >= b.created_at

Min(a, b) == IF a <= b THEN a ELSE b

\* get_tasks: the sequences of rows the query may return.  Rows that tie
\* under the ORDER BY come in an order the engine chooses.
get_tasks(store, status, order, skip, limit) ==
    LET ids == FilterByStatus(store, status)
        n == Cardinality(ids)
        sorted == { s \in [1 .. n -> ids] :
                      /\ \A i, j \in 1 .. n : i # j => s[i] # s[j]
                      /\ \A i, j \in 1 .. n :
                            i < j => OrderBy(store[s[i]], store[s[j]], order) }
    IN { SubSeq([k \in 1 .. n |-> store[s[k]]], skip + 1, Min(n, skip + limit)) :
           s \in sorted }

count_tasks(store, status) == Cardinality(FilterByStatus(store, status))

\* ------------------------------------------------------------ the handlers
Without(seq, id) == SelectSeq(seq, LAMBDA i : i # id)

NoResponse == [op |-> "none"]

\* A session that holds no object, and one that holds the row get_task
\* loaded for the request.
Idle == [op |-> "idle"]
Loaded(op, body, db_task) == [op |-> op, body |-> body, db_task |-> db_task]

\* A session of list_tasks that has run get_tasks and not yet count_tasks.
Listed(query, rows) == [op |-> "list", query |-> query, tasks |-> rows]

\* The response to a request on one task: the request (operation, path id,
\* body), the status code, the row the handler found and the task returned.
TaskResponse(op, id, body, status, before, task) ==
    [op |-> op, id |-> id, body |-> body, status |-> status,
     before |-> before, task |-> task]

ListResponse(query, status, rows, total) ==
    [op |-> "list", query |-> query, status |-> status,
     tasks |-> rows, total |-> total]

\* What the handler answers from what the store returned or raised.
StatusOf(error, found, success) ==
    IF error # "none" THEN HTTP_500_SERVER_ERROR
    ELSE IF ~ found THEN HTTP_404_NOT_FOUND
    ELSE success

Init ==
    /\ backend \in {"sqlite", "postgresql"}
    /\ sequence = 0
    /\ tasks = << >>
    /\ created = << >>
    /\ clock = 0
    /\ resp = NoResponse
    /\ sess = [s \in Sessions |-> Idle]
    /\ assigned = {}

\* Time passes.
Tick ==
    /\ resp = NoResponse
    /\ clock < MaxClock
    /\ clock' = clock + 1
    /\ UNCHANGED << assigned, backend, sequence, tasks, created, resp, sess >>

\* The client receives the response.
Deliver ==
    /\ resp # NoResponse
    /\ resp' = NoResponse
    /\ UNCHANGED << assigned, backend, sequence, tasks, created, clock, sess >>

\* POST /tasks
api_create_task(body) ==
    /\ resp = NoResponse
    /\ IF ~ TaskCreate_valid(body)
       THEN /\ resp' = TaskResponse("create", 0, body, HTTP_422_UNPROCESSABLE, None, None)
            /\ UNCHANGED << assigned, backend, sequence, tasks, created, clock, sess >>
       ELSE LET id == NextId(backend, tasks, sequence) IN
            /\ id <= MaxId
            /\ \E later \in {clock, clock + 1} :
                 /\ later <= MaxClock
                 /\ tasks' = create_task(tasks, id, body, clock, later)
                 /\ clock' = later
            /\ created' = Append(created, id)
            /\ sequence' = IF backend = "sqlite" THEN sequence ELSE id
            /\ resp' = TaskResponse("create", id, body, HTTP_201_CREATED, None,
                                    get_task(tasks', id))
            /\ assigned' = assigned \cup {id}
            /\ UNCHANGED << backend, sess >>

\* GET /tasks/{task_id}
api_get_task(task_id) ==
    LET db_task == get_task(tasks, task_id) IN
    /\ resp = NoResponse
    /\ resp' = TaskResponse("get", task_id, None,
                            StatusOf("none", db_task # None, HTTP_200_OK),
                            db_task, db_task)
    /\ UNCHANGED << assigned, backend, sequence, tasks, created, clock, sess >>

\* GET /tasks
ListQuery_valid(q) ==
    /\ q.status \in {None, Some("completed"), Some("pending")}
    /\ q.order \in {None, Some("newest"), Some("oldest"), Some("due_date")}
    /\ q.skip >= 0
    /\ q.limit >= 1
    /\ q.limit <= LIMIT_MAX

api_list_tasks(q) ==
    /\ resp = NoResponse
    /\ IF ~ ListQuery_valid(q)
       THEN resp' = ListResponse(q, HTTP_422_UNPROCESSABLE, << >>, 0)
       ELSE \E rows \in get_tasks(tasks, q.status,
                                  IF q.order = None THEN "newest" ELSE q.order[1],
                                  q.skip, q.limit) :
               resp' = ListResponse(q, HTTP_200_OK, rows, count_tasks(tasks, q.status))
    /\ UNCHANGED << assigned, backend, sequence, tasks, created, clock, sess >>

\* PUT /tasks/{task_id}
api_update_task(task_id, body) ==
    /\ resp = NoResponse
    /\ IF ~ TaskUpdate_valid(body)
       THEN /\ resp' = TaskResponse("update", task_id, body, HTTP_422_UNPROCESSABLE,
                                    None, None)
            /\ UNCHANGED << assigned, backend, sequence, tasks, created, clock, sess >>
       ELSE LET r == update_task(tasks, task_id, body, clock) IN
            /\ tasks' = r.tasks
            /\ resp' = TaskResponse("update", task_id, body,
                                    StatusOf(r.error, r.ret # None, HTTP_200_OK),
                                    get_task(tasks, task_id), r.ret)
            /\ UNCHANGED << assigned, backend, sequence, created, clock, sess >>

\* PATCH /tasks/{task_id}/complete
api_toggle_task_completion(task_id) ==
    LET r == toggle_task_completion(tasks, task_id, clock) IN
    /\ resp = NoResponse
    /\ tasks' = r.tasks
    /\ resp' = TaskResponse("toggle", task_id, None,
                            StatusOf(r.error, r.ret # None, HTTP_200_OK),
                            get_task(tasks, task_id), r.ret)
    /\ UNCHANGED << assigned, backend, sequence, created, clock, sess >>

\* DELETE /tasks/{task_id}
api_delete_task(task_id) ==
    LET r == delete_task(tasks, task_id) IN
    /\ resp = NoResponse
    /\ tasks' = r.tasks
    /\ resp' = TaskResponse("delete", task_id, None,
                            StatusOf(r.error, r.ret, HTTP_204_NO_CONTENT),
                            get_task(tasks, task_id), None)
    /\ created' = IF r.ret THEN Without(created, task_id) ELSE created
    /\ UNCHANGED << assigned, backend, sequence, clock, sess >>

CreateStep == \E body \in CreateBodies : api_create_task(body)
GetStep == \E id \in TaskIds : api_get_task(id)
ListStep == \E q \in ListQueries : api_list_tasks(q)
UpdateStep == \E id \in TaskIds : \E body \in UpdateBodies : api_update_task(id, body)
ToggleStep == \E id \in TaskIds : api_toggle_task_completion(id)
DeleteStep == \E id \in TaskIds : api_delete_task(id)

Next ==
    \/ Tick
    \/ Deliver
    \/ CreateStep
    \/ GetStep
    \/ ListStep
    \/ UpdateStep
    \/ ToggleStep
    \/ DeleteStep

Spec == Init /\ [][Next]_vars

\* ------------------------------------------------- overlapping requests
\* The handlers are plain functions, which the server runs in the threads
\* of a pool: between get_task and db.commit() of one request the others
\* may read and commit.

\* PUT /tasks/{task_id}, up to db.commit()
update_task_read(s, task_id, body) ==
    LET db_task == get_task(tasks, task_id) IN
    /\ resp = NoResponse
    /\ sess[s] = Idle
    /\ IF ~ TaskUpdate_valid(body)
       THEN /\ resp' = TaskResponse("update", task_id, body, HTTP_422_UNPROCESSABLE,
                                    None, None)
            /\ sess' = sess
       ELSE IF db_task = None
       THEN /\ resp' = TaskResponse("update", task_id, body, HTTP_404_NOT_FOUND,
                                    None, None)
            /\ sess' = sess
       ELSE /\ sess' = [sess EXCEPT ![s] = Loaded("update", body, db_task[1])]
            /\ resp' = resp
    /\ UNCHANGED << assigned, backend, sequence, tasks, created, clock >>

\* db.commit() and db.refresh(db_task) of the session: the flush, then a
\* SELECT of the row, which raises InvalidRequestError when it is gone.
Commit(s, op, pending) ==
    LET loaded == sess[s].db_task
        c == commit_update(tasks, loaded, pending, clock)
        refreshed == get_task(c.tasks, loaded.id)
        error == IF c.error # "none" THEN c.error
                 ELSE IF refreshed = None THEN "InvalidRequestError"
                 ELSE "none"
    IN /\ resp = NoResponse
       /\ sess[s].op = op
       /\ tasks' = c.tasks
       /\ resp' = TaskResponse(op, loaded.id, sess[s].body,
                               StatusOf(error, TRUE, HTTP_200_OK), Some(loaded),
                               IF error = "none" THEN refreshed ELSE None)
       /\ sess' = [sess EXCEPT ![s] = Idle]
       /\ UNCHANGED << assigned, backend, sequence, created, clock >>

update_task_commit(s) ==
    /\ sess[s].op = "update"
    /\ Commit(s, "update", apply_update(sess[s].db_task, sess[s].body))

\* PATCH /tasks/{task_id}/complete, up to db.commit()
toggle_task_completion_read(s, task_id) ==
    LET db_task == get_task(tasks, task_id) IN
    /\ resp = NoResponse
    /\ sess[s] = Idle
    /\ IF db_task = None
       THEN /\ resp' = TaskResponse("toggle", task_id, None, HTTP_404_NOT_FOUND,
                                    None, None)
            /\ sess' = sess
       ELSE /\ sess' = [sess EXCEPT ![s] = Loaded("toggle", None, db_task[1])]
            /\ resp' = resp
    /\ UNCHANGED << assigned, backend, sequence, tasks, created, clock >>

toggle_task_completion_commit(s) ==
    /\ sess[s].op = "toggle"
    /\ Commit(s, "toggle", apply_toggle(sess[s].db_task))

\* DELETE /tasks/{task_id}, up to db.delete(db_task)
delete_task_read(s, task_id) ==
    LET db_task == get_task(tasks, task_id) IN
    /\ resp = NoResponse
    /\ sess[s] = Idle
    /\ IF db_task = None
       THEN /\ resp' = TaskResponse("delete", task_id, None, HTTP_404_NOT_FOUND,
                                    None, None)
            /\ sess' = sess
       ELSE /\ sess' = [sess EXCEPT ![s] = Loaded("delete", None, db_task[1])]
            /\ resp' = resp
    /\ UNCHANGED << assigned, backend, sequence, tasks, created, clock >>

delete_task_commit(s) ==
    LET loaded == sess[s].db_task
        c == commit_delete(tasks, loaded)
    IN /\ resp = NoResponse
       /\ sess[s].op = "delete"
       /\ tasks' = c.tasks
       /\ created' = Without(created, loaded.id)
       /\ resp' = TaskResponse("delete", loaded.id, None,
                               StatusOf(c.error, TRUE, HTTP_204_NO_CONTENT),
                               Some(loaded), None)
       /\ sess' = [sess EXCEPT ![s] = Idle]
       /\ UNCHANGED << assigned, backend, sequence, clock >>

\* GET /tasks, line 50: the first query of the handler.
list_tasks_read(s, q) ==
    /\ resp = NoResponse
    /\ sess[s] = Idle
    /\ IF ~ ListQuery_valid(q)
       THEN /\ resp' = ListResponse(q, HTTP_422_UNPROCESSABLE, << >>, 0)
            /\ sess' = sess
       ELSE /\ \E rows \in get_tasks(tasks, q.status,
                                     IF q.order = None THEN "newest" ELSE q.order[1],
                                     q.skip, q.limit) :
                 sess' = [sess EXCEPT ![s] = Listed(q, rows)]
            /\ resp' = resp
    /\ UNCHANGED << assigned, backend, sequence, tasks, created, clock >>

\* GET /tasks, lines 51-52: the second query, on the table as it is by then.
list_tasks_count(s) ==
    /\ resp = NoResponse
    /\ sess[s].op = "list"
    /\ resp' = ListResponse(sess[s].query, HTTP_200_OK, sess[s].tasks,
                            count_tasks(tasks, sess[s].query.status))
    /\ sess' = [sess EXCEPT ![s] = Idle]
    /\ UNCHANGED << assigned, backend, sequence, tasks, created, clock >>

CreateConc == \E body \in CreateBodiesConc : api_create_task(body)
UpdateRead ==
    \E s \in Sessions : \E id \in TaskIds : \E body \in UpdateBodiesConc :
       update_task_read(s, id, body)
UpdateCommit == \E s \in Sessions : update_task_commit(s)
ToggleRead == \E s \in Sessions : \E id \in TaskIds : toggle_task_completion_read(s, id)
ToggleCommit == \E s \in Sessions : toggle_task_completion_commit(s)
DeleteRead == \E s \in Sessions : \E id \in TaskIds : delete_task_read(s, id)
DeleteCommit == \E s \in Sessions : delete_task_commit(s)
ListRead == \E s \in Sessions : \E q \in ListQueriesConc : list_tasks_read(s, q)
ListCount == \E s \in Sessions : list_tasks_count(s)

NextConc ==
    \/ Tick
    \/ Deliver
    \/ CreateConc
    \/ GetStep
    \/ UpdateRead
    \/ UpdateCommit
    \/ ToggleRead
    \/ ToggleCommit
    \/ DeleteRead
    \/ DeleteCommit
    \/ ListRead
    \/ ListCount

SpecConc == Init /\ [][NextConc]_vars

\* Toggle requests that overlap with each other, on tasks that nothing
\* else updates or deletes.
NextToggle ==
    \/ Tick
    \/ Deliver
    \/ CreateConc
    \/ GetStep
    \/ ToggleRead
    \/ ToggleCommit

SpecToggle == Init /\ [][NextToggle]_vars

TypeOK ==
    /\ backend \in {"sqlite", "postgresql"}
    /\ sequence \in 0 .. MaxId
    /\ DOMAIN tasks \subseteq TaskIds
    /\ clock \in 0 .. MaxClock

\* ------------------------------------------------------------------ claims
IsResponse(op, status) == resp.op = op /\ resp.status = status

\* C1: every task returned by create has completed = false and
\* created_at = updated_at, carries exactly the title, description and
\* due_date of the request, and create adds exactly one row to the store
\* without changing any existing row.
C1_CreateContract ==
    [][ (resp'.op = "create" /\ resp'.status = HTTP_201_CREATED) =>
          LET t == resp'.task[1] IN
          /\ t.completed = Some(FALSE)
          /\ t.created_at = t.updated_at
          /\ t.title = resp'.body.title
          /\ t.description = resp'.body.description
          /\ t.due_date = resp'.body.due_date
          /\ t.id \notin DOMAIN tasks
          /\ DOMAIN tasks' = (DOMAIN tasks) \cup {t.id}
          /\ tasks'[t.id] = t
          /\ \A i \in DOMAIN tasks : tasks'[i] = tasks[i] ]_vars

\* C2: for update on an existing id, each of title, description, due_date
\* and completed that the request omits keeps its prior stored value, and each
\* of them that the request carries is overwritten with the request's value.
C2_UpdateOmittedKeptPresentOverwritten ==
    (resp.op = "update" /\ resp.status # HTTP_422_UNPROCESSABLE
        /\ resp.before # None) =>
       \A f \in UpdateFields :
          tasks[resp.id][f] = IF f \in resp.body.fields_set
                              THEN resp.body[f]
                              ELSE resp.before[1][f]

\* C3 as stated: every update that finds its id and returns a task, whatever
\* its payload, and every successful toggle leaves updated_at of the task
\* equal to the time of the operation.
C3_EveryUpdateRefreshes ==
    (IsResponse("update", HTTP_200_OK) \/ IsResponse("toggle", HTTP_200_OK)) =>
       /\ resp.task[1].updated_at = clock
       /\ tasks[resp.id].updated_at = clock

\* C3 as amended: an update that returns a task refreshes updated_at to the
\* time of the operation when its payload changes the value of at least one
\* of title, description, due_date and completed, and leaves updated_at as
\* it was otherwise; every successful toggle refreshes updated_at.
C3_ChangingUpdateRefreshes ==
    /\ IsResponse("update", HTTP_200_OK) =>
          LET old == resp.before[1]
              changes == \E f \in resp.body.fields_set : resp.body[f] # old[f]
          IN /\ resp.task[1] = tasks[resp.id]
             /\ tasks[resp.id].updated_at =
                   IF changes THEN clock ELSE old.updated_at
    /\ IsResponse("toggle", HTTP_200_OK) =>
          /\ resp.task[1] = tasks[resp.id]
          /\ tasks[resp.id].updated_at = clock

C3_Witness ==
    /\ IsResponse("update", HTTP_200_OK)
    /\ \E f \in resp.body.fields_set : resp.body[f] # resp.before[1][f]
    /\ resp.before[1].updated_at < clock

\* C4: toggle_completion on an existing task returns the task with completed
\* equal to the negation of the stored value, and a second toggle applied
\* right after the first returns the task to its original completed value.
C4_ToggleNegates ==
    /\ IsResponse("toggle", HTTP_200_OK) =>
          /\ resp.task[1].completed = Some(~ resp.before[1].completed[1])
          /\ tasks[resp.id] = resp.task[1]
    /\ \A id \in DOMAIN tasks :
          LET once == toggle_task_completion(tasks, id, clock)
              twice == toggle_task_completion(once.tasks, id, clock)
          IN /\ once.ret # None /\ twice.ret # None
             /\ once.ret[1].completed = Some(~ tasks[id].completed[1])
             /\ twice.ret[1].completed = tasks[id].completed
             /\ twice.tasks[id].completed = tasks[id].completed

C4_Witness ==
    /\ IsResponse("toggle", HTTP_200_OK)
    /\ resp.before[1].completed = Some(TRUE)
    /\ resp.task[1].completed = Some(FALSE)

\* C5: once delete(id) has answered 204 the store holds no row with that id,
\* get and delete on an id the store does not hold answer 404 and change
\* nothing, only a create adds a row, and an update or toggle that read the
\* task before the delete committed and commits after it fails (500) and
\* leaves the store as it is: no in-flight mutation brings the task back.
C5_DeletedStaysDeleted ==
    [][ /\ (resp'.op = "delete" /\ resp'.status = HTTP_204_NO_CONTENT)
             => resp'.id \notin DOMAIN tasks'
        /\ ( /\ resp'.op \in {"get", "delete"}
             /\ sess' = sess
             /\ resp'.id \notin DOMAIN tasks )
             => (resp'.status = HTTP_404_NOT_FOUND /\ tasks' = tasks)
        /\ \A i \in (DOMAIN tasks') \ (DOMAIN tasks) :
              /\ IsResponse("create", HTTP_201_CREATED)'
              /\ resp'.id = i
        /\ \A s \in Sessions :
              ( /\ sess[s].op \in {"update", "toggle"}
                /\ sess'[s] = Idle
                /\ sess[s].db_task.id \notin DOMAIN tasks )
              => ( /\ tasks' = tasks
                   /\ resp'.op = sess[s].op
                   /\ resp'.status = HTTP_500_SERVER_ERROR
                   /\ resp'.task = None )
      ]_vars

C5_Witness ==
    /\ resp.op \in {"update", "toggle"}
    /\ resp.status = HTTP_500_SERVER_ERROR
    /\ resp.before # None
    /\ resp.id \notin DOMAIN tasks
    /\ \A s \in Sessions : sess[s] = Idle

\* C6: get, update, toggle_completion and delete called with an id that is
\* not in the store report not-found as a value (None, None, None, False at
\* the store, 404 at the service surface) and leave the whole store unchanged.
C6_NotFoundLeavesStore ==
    [][ ( /\ resp'.op \in {"get", "update", "toggle", "delete"}
          /\ resp'.status # HTTP_422_UNPROCESSABLE
          /\ resp'.id \notin DOMAIN tasks ) =>
            /\ resp'.status = HTTP_404_NOT_FOUND
            /\ resp'.task = None
            /\ tasks' = tasks
            /\ created' = created
            /\ get_task(tasks, resp'.id) = None
            /\ resp'.op = "update" =>
                  LET r == update_task(tasks, resp'.id, resp'.body, clock)
                  IN r.ret = None /\ r.error = "none" /\ r.tasks = tasks
            /\ resp'.op = "toggle" =>
                  LET r == toggle_task_completion(tasks, resp'.id, clock)
                  IN r.ret = None /\ r.error = "none" /\ r.tasks = tasks
            /\ resp'.op = "delete" =>
                  LET r == delete_task(tasks, resp'.id)
                  IN r.ret = FALSE /\ r.error = "none" /\ r.tasks = tasks ]_vars

C6_Witness ==
    /\ IsResponse("update", HTTP_404_NOT_FOUND)
    /\ resp.body.fields_set # {}
    /\ DOMAIN tasks # {}

\* C7: a create request with no title, and a create or update request whose
\* title is null, empty or longer than 255 characters, is rejected with 422
\* and leaves the store unchanged; every stored title has length 1..255.
TitleFailsConstraints(op, body) ==
    \/ op = "create" /\ "title" \notin body.fields_set
    \/ /\ "title" \in body.fields_set
       /\ \/ body.title = None
          \/ Len(body.title[1]) < TITLE_MIN_LENGTH
          \/ Len(body.title[1]) > TITLE_MAX_LENGTH

StoredTitlesValid ==
    \A i \in DOMAIN tasks :
       /\ tasks[i].title # None
       /\ Len(tasks[i].title[1]) >= TITLE_MIN_LENGTH
       /\ Len(tasks[i].title[1]) <= TITLE_MAX_LENGTH

C7_BadTitleRejected ==
    /\ [][ ( /\ resp'.op \in {"create", "update"}
             /\ TitleFailsConstraints(resp'.op, resp'.body) ) =>
               /\ resp'.status = HTTP_422_UNPROCESSABLE
               /\ tasks' = tasks ]_vars
    /\ []StoredTitlesValid

\* C8: after any sequence of create, update (also with completed explicitly
\* null), toggle and delete, every stored task has completed true or false,
\* and list(status="completed") and list(status="pending") have no task in
\* common and together hold exactly the tasks of the unfiltered list.
RowsOf(rows) == { rows[k] : k \in DOMAIN rows }

C8_CompletedIsBoolean ==
    LET stored == { tasks[i] : i \in DOMAIN tasks }
        completed == get_tasks(tasks, Some("completed"), "newest", 0, LIMIT_MAX)
        pending == get_tasks(tasks, Some("pending"), "newest", 0, LIMIT_MAX)
        all == get_tasks(tasks, None, "newest", 0, LIMIT_MAX)
    IN /\ \A t \in stored : t.completed \in {Some(TRUE), Some(FALSE)}
       /\ \A c \in completed : \A p \in pending : \A a \in all :
             /\ RowsOf(c) \cap RowsOf(p) = {}
             /\ RowsOf(c) \cup RowsOf(p) = RowsOf(a)
             /\ RowsOf(a) = stored

C8_Witness ==
    /\ resp.op = "update"
    /\ resp.before # None
    /\ "completed" \in resp.body.fields_set
    /\ resp.body.completed = None
    /\ \E i, j \in DOMAIN tasks :
          tasks[i].completed = Some(TRUE) /\ tasks[j].completed = Some(FALSE)

\* C9: list(order="oldest") returns the tasks in the order of their create
\* calls and list(order="newest") in exactly the reverse order, whatever
\* updates and toggles were applied in between.
IdsOf(rows) == [k \in DOMAIN rows |-> rows[k].id]
Reverse(seq) == [k \in 1 .. Len(seq) |-> seq[Len(seq) + 1 - k]]

C9_ListFollowsCreateOrder ==
    /\ \A rows \in get_tasks(tasks, None, "oldest", 0, LIMIT_MAX) :
          IdsOf(rows) = created
    /\ \A rows \in get_tasks(tasks, None, "newest", 0, LIMIT_MAX) :
          IdsOf(rows) = Reverse(created)

\* C10: list(order="due_date"), with or without a status filter, returns
\* every task with a due date before every task without one, the former in
\* ascending due_date order, and two tasks with equal due_date (or both
\* without one) in descending created_at order.
DueDateOrdered(rows) ==
    \A i, j \in DOMAIN rows :
       i < j =>
          /\ ~ (rows[i].due_date = None /\ rows[j].due_date # None)
          /\ (rows[i].due_date # None /\ rows[j].due_date # None)
                => rows[i].due_date[1] <= rows[j].due_date[1]
          /\ rows[i].due_date = rows[j].due_date
                => rows[i].created_at >= rows[j].created_at

C10_DueDateOrder ==
    /\ \A status \in {None, Some("completed"), Some("pending")} :
          \A rows \in get_tasks(tasks, status, "due_date", 0, LIMIT_MAX) :
             /\ DueDateOrdered(rows)
             /\ RowsOf(rows) = { tasks[i] : i \in FilterByStatus(tasks, status) }
    /\ ( /\ IsResponse("list", HTTP_200_OK)
         /\ resp.query.order = Some("due_date") ) => DueDateOrdered(resp.tasks)

C10_Witness ==
    /\ IsResponse("list", HTTP_200_OK)
    /\ resp.query.order = Some("due_date")
    /\ Len(resp.tasks) = 2
    /\ resp.tasks[1].due_date # None
    /\ resp.tasks[2].due_date = None
    /\ resp.tasks[1].created_at < resp.tasks[2].created_at

\* C11: the total of every list response is the number of tasks that match
\* the status filter in the store the returned tasks were read from: it is
\* never smaller than the number of tasks returned, and equals it when the
\* request skips nothing and the tasks returned do not fill the limit,
\* whatever other requests commit between the two queries of the handler.
C11_TotalMatchesRows ==
    IsResponse("list", HTTP_200_OK) =>
       /\ resp.total >= Len(resp.tasks)
       /\ (resp.query.skip = 0 /\ Len(resp.tasks) < resp.query.limit)
             => resp.total = Len(resp.tasks)

\* C12: every create returns an id greater than every id an earlier create
\* returned, also after the task with the largest id has been deleted: no
\* id is given to two tasks.
C12_IdsNeverReused ==
    [][ IsResponse("create", HTTP_201_CREATED)'
          => \A i \in assigned : resp'.id > i ]_vars

\* C13: no step changes the id or created_at of a task the store keeps, and
\* an update, toggle or delete of one id leaves every task with another id
\* as it was; an update or toggle neither adds nor removes a task.
C13_MutationFrame ==
    [][ /\ \A i \in (DOMAIN tasks) \cap (DOMAIN tasks') :
              /\ tasks'[i].id = i
              /\ tasks'[i].id = tasks[i].id
              /\ tasks'[i].created_at = tasks[i].created_at
        /\ (resp = NoResponse /\ resp'.op \in {"update", "toggle", "delete"})
              => \A i \in (DOMAIN tasks) \ {resp'.id} :
                    i \in DOMAIN tasks' /\ tasks'[i] = tasks[i]
        /\ (resp = NoResponse /\ resp'.op \in {"update", "toggle"})
              => DOMAIN tasks' = DOMAIN tasks
      ]_vars

C13_Witness ==
    /\ IsResponse("update", HTTP_200_OK)
    /\ resp.task # resp.before
    /\ resp.before[1].created_at < clock
    /\ \E j \in DOMAIN tasks : j # resp.id
    /\ "title" \in resp.body.fields_set

\* C14: no step lowers updated_at of a task the store keeps, every update
\* and toggle returns the task with updated_at at or after the value it
\* found, and created_at <= updated_at holds of every stored task.
StampsOrdered == \A i \in DOMAIN tasks : tasks[i].created_at <= tasks[i].updated_at

C14_UpdatedAtNeverDecreases ==
    /\ [][ /\ \A i \in (DOMAIN tasks) \cap (DOMAIN tasks') :
                  tasks'[i].updated_at >= tasks[i].updated_at
            /\ ( /\ resp = NoResponse
                 /\ resp'.op \in {"update", "toggle"}
                 /\ resp'.status = HTTP_200_OK )
                  => /\ resp'.task[1].updated_at >= resp'.before[1].updated_at
                     /\ resp'.task[1].created_at <= resp'.task[1].updated_at
          ]_vars
    /\ []StampsOrdered

C14_Witness ==
    /\ IsResponse("toggle", HTTP_200_OK)
    /\ resp.before[1].created_at = resp.before[1].updated_at
    /\ resp.task[1].updated_at > resp.before[1].updated_at
    /\ tasks[resp.id].updated_at = clock

\* C15: where toggles are the only requests that change a task, every
\* toggle that returns successfully flips the stored completed value when it
\* commits, so that k successful toggles change it exactly when k is odd,
\* also when their reads and commits interleave.
C15_NoToggleLost ==
    [][ ( /\ resp = NoResponse
          /\ IsResponse("toggle", HTTP_200_OK)' )
          => /\ resp'.id \in DOMAIN tasks
             /\ tasks'[resp'.id].completed # tasks[resp'.id].completed
      ]_vars

====
